---- MODULE Spec2Model ----
\* Model of src/JSONExporter.py: the graph export generate_graph_from_package
\* (a recursive traversal diagram -> element -> classifier / linked diagrams /
\* connectors) over a frozen Enterprise Architect repository.
\*
\* The recursion of process_element / process_linked_diagrams is an explicit
\* stack of frames.  A node dict of the Python code is referred to by the
\* ElementID that keys it in processed_elements: "elements" lists hold such
\* references, exactly as the Python lists hold references to the shared dicts.
EXTENDS Integers, Sequences, FiniteSets, TLC

\* ------------------------------------------------------------------ bounds
\* diagrams 1..MaxDiag exist in the repository
MaxDiag == 2
\* longest list of diagram objects, of linked diagrams, of connectors
MaxLen == 2
\* references (diagram objects, classifiers, links, connectors) in a repository
MaxRefs == 3
\* packages (top-level models included) in a project listed by get_all_packages
MaxPackages == 4

\* --------------------------------------------------------- the repository
\* the elements of the repository: A (ElementID 1), B (ElementID 2) and X
\* (ElementID 3)
ElementIDs == {1, 2, 3}
\* the elements A and B of the scenario
ScenarioIDs == {1, 2}
\* an ElementID that no element of the repository carries (dangling reference)
MissingID == 1 + Cardinality(ElementIDs)
DiagramIDs == 1..MaxDiag

None == "None"

\* Packages of the project: P (its diagram list starts with diagram 1 and
\* holds a second diagram), Q (diagram MaxDiag only) and R (no diagram).
PackageIDs == {1, 2, 3}
PackageName(p) == IF p = 1 THEN "P" ELSE IF p = 2 THEN "Q" ELSE "R"
PackageDiagrams(p) == IF p = 1 THEN <<1, MaxDiag>> ELSE IF p = 2 THEN <<MaxDiag>> ELSE <<>>

DiagramName(d) == IF d = 1 THEN "D" ELSE "D'"

ElementName(e) == IF e = 1 THEN "A" ELSE IF e = 2 THEN "B" ELSE "X"
ElementType(e) == IF e = 1 THEN "Class" ELSE IF e = 2 THEN "Interface" ELSE "Enumeration"
\* element.PackageID; 0 resolves to no package
ElementPackageID(e) == e - 1
ElementAttributes(e) ==
    IF e = 1 THEN <<>>
    ELSE <<[AttributeID |-> 10 * e, Name |-> "a", Type |-> "int", Default |-> "0"]>>

ConnectorTypes == {"Association", "Dependency"}
ConnectorNames == {"uses", "calls"}

\* the diagram object at index i of diagram d, placing element id e
DiagramObject(d, i, e) ==
    [ElementID |-> e, left |-> 10 * i, right |-> 10 * i + 5, top |-> -d, bottom |-> -d - 5]

\* ---------------------------------------------------------------- strings
Digits == <<"0", "1", "2", "3", "4", "5", "6", "7", "8", "9">>

RECURSIVE NatStr(_)
NatStr(n) == IF n < 10 THEN <<Digits[n + 1]>> ELSE NatStr(n \div 10) \o <<Digits[(n % 10) + 1]>>

\* Python str(int), as the sequence of its characters
Str(n) == IF n < 0 THEN <<"-">> \o NatStr(-n) ELSE NatStr(n)

\* "D" + str(DiagramID)
DiagramNodeID(d) == <<"D">> \o Str(d)

\* f"{source}-{target}-{type}"; the type tag is one token of the text
EdgeID(src, tgt, type) == Str(src) \o <<"-">> \o Str(tgt) \o <<"-", type>>

\* ------------------------------------------------- repository collaborator
\* One connector of the scenario (A -> B, "Association", "uses") and every
\* connector that differs from it in one field: other client, other supplier
\* (dangling ones included), other type, other name.
BaseConnector == [ClientID |-> 1, SupplierID |-> 2, Type |-> "Association", Name |-> "uses"]
FieldDistance(c, b) ==
    (IF c.ClientID = b.ClientID THEN 0 ELSE 1) + (IF c.SupplierID = b.SupplierID THEN 0 ELSE 1)
    + (IF c.Type = b.Type THEN 0 ELSE 1) + (IF c.Name = b.Name THEN 0 ELSE 1)
ConnectorsOver(S) ==
    {c \in [ClientID : S, SupplierID : S, Type : ConnectorTypes, Name : ConnectorNames] :
        FieldDistance(c, BaseConnector) <= 1}

Min(a, b) == IF a < b THEN a ELSE b
Last(D) == CHOOSE x \in D : \A y \in D : y <= x

\* the repositories the export is run on: every repository in which the
\* elements of a set E are the ones that are referred to and that refer, and
\* that holds at most k references in all (diagram objects, classifier
\* references, diagram links, connectors).

\* the functions from D to lists over S, no list longer than MaxLen, that hold
\* k entries in all
RECURSIVE ListsOver(_, _, _)
ListsOver(D, S, k) ==
    IF D = {} THEN (IF k = 0 THEN {<<>>} ELSE {})
    ELSE UNION {{(Last(D) :> s) @@ f : s \in [1..j -> S], f \in ListsOver(D \ {Last(D)}, S, k - j)} :
                    j \in 0..Min(k, MaxLen)}

\* the functions from D to classifier ids of S, of which k are not 0
RECURSIVE ClassifiersOver(_, _, _)
ClassifiersOver(D, S, k) ==
    IF D = {} THEN (IF k = 0 THEN {<<>>} ELSE {})
    ELSE {(Last(D) :> 0) @@ f : f \in ClassifiersOver(D \ {Last(D)}, S, k)}
         \cup (IF k = 0 THEN {}
               ELSE {(Last(D) :> c) @@ f : c \in S, f \in ClassifiersOver(D \ {Last(D)}, S, k - 1)})

\* ------------------------------------------------- the package hierarchy
\* The projects get_all_packages is run on: every forest of at most
\* MaxPackages packages.  A forest is given by the parent of each package (0
\* for a top-level model, else a package of smaller id) and by the index order
\* of the Packages / Models collections (by rising or by falling id).

\* the parent functions over the packages 1..n
RECURSIVE ParentsOf(_)
ParentsOf(n) ==
    IF n = 0 THEN {<<>>} ELSE {Append(f, q) : f \in ParentsOf(n - 1), q \in 0..(n - 1)}

\* the members of a set of ids as a collection indexed by rising / falling id
RECURSIVE Rising(_)
Rising(S) ==
    IF S = {} THEN <<>>
    ELSE LET m == CHOOSE x \in S : \A y \in S : x <= y IN <<m>> \o Rising(S \ {m})
RECURSIVE Falling(_)
Falling(S) == IF S = {} THEN <<>> ELSE <<Last(S)>> \o Falling(S \ {Last(S)})

\* repository.Models and, per package, package.Packages and package.ParentID
ProjectModel(parent, falling) ==
    LET Sub(q) == {i \in DOMAIN parent : parent[i] = q}
        Coll(S) == IF falling THEN Falling(S) ELSE Rising(S)
    IN [Models |-> Coll(Sub(0)),
        Packages |-> [q \in DOMAIN parent |-> Coll(Sub(q))],
        ParentID |-> parent]

ProjectModels ==
    UNION {{ProjectModel(parent, falling) : parent \in ParentsOf(n), falling \in BOOLEAN} :
               n \in 0..MaxPackages}

\* a repository without diagram objects, classifiers, links and connectors
EmptyRepo ==
    [objects |-> [d \in DiagramIDs |-> <<>>], classifier |-> [e \in ElementIDs |-> 0],
     linked |-> [e \in ElementIDs |-> <<>>], connectors |-> [e \in ElementIDs |-> <<>>]]

VARIABLES
    repo,                 \* the frozen repository the calls read
    pc,                   \* "idle", "running", "returned" or "raised"
    pkg,                  \* ea_pkg of the current or last call
    graph,                \* graph = {"nodes": [...], "edges": [...]}
    visited_elements,
    visited_diagrams,
    edge_set,
    processed_elements,   \* ElementID -> node
    stack,                \* the activation records, innermost last
    calls,                \* calls made so far
    results,              \* per package, the graph its first call returned
    model,                \* the package hierarchy get_all_packages reads
    all_packages,         \* what get_all_packages returned: <<list>>, <<>> before
    collect               \* activation records of get_all_packages, innermost last

\* the state of the graph export and the state of the package listing
export_vars == <<repo, pc, pkg, graph, visited_elements, visited_diagrams, edge_set,
                 processed_elements, stack, calls, results>>
listing_vars == <<model, all_packages, collect>>

vars == <<repo, pc, pkg, graph, visited_elements, visited_diagrams, edge_set,
          processed_elements, stack, calls, results, model, all_packages, collect>>

\* repository.GetElementByID(id): the element, or nothing (empty) when absent
GetElementByID(id) == IF id \in ElementIDs THEN <<id>> ELSE <<>>
\* repository.GetPackageByID(id)
GetPackageByID(id) == IF id \in PackageIDs THEN <<id>> ELSE <<>>

\* the attribute records of lines 112-119 and 145-152
AttributeRecords(e) ==
    [a \in 1..Len(ElementAttributes(e)) |->
        [id |-> ElementAttributes(e)[a].AttributeID, name |-> ElementAttributes(e)[a].Name,
         type |-> ElementAttributes(e)[a].Type, default |-> ElementAttributes(e)[a].Default]]

\* the node dict of lines 98-119
ElementNode(e, diag_object) ==
    [id |-> e, name |-> ElementName(e), type |-> ElementType(e),
     attributes |-> AttributeRecords(e), linkedDiagrams |-> <<>>,
     position |-> [left |-> diag_object.left, right |-> diag_object.right,
                   top |-> diag_object.top, bottom |-> diag_object.bottom]]

\* the node dict of lines 135-152
ExternalNode(e) ==
    [id |-> e, name |-> ElementName(e), type |-> ElementType(e),
     package |-> IF GetPackageByID(ElementPackageID(e)) # <<>>
                 THEN PackageName(ElementPackageID(e)) ELSE None,
     attributes |-> AttributeRecords(e)]

IsDiagramFrame(f) == f.kind \in {"main", "linked"}
Top == stack[Len(stack)]
Pop(s) == SubSeq(s, 1, Len(s) - 1)
ReplaceTop(s, f) == [s EXCEPT ![Len(s)] = f]

\* repo is a repository of at most k references among the elements of E and
\* the missing id; an element outside E is in the repository, is placed and
\* referred to nowhere, and has no classifier, link or connector
RepositoryOver(E, k) ==
    LET S == E \cup {MissingID} IN
    \E a \in 0..k : \E o \in ListsOver(DiagramIDs, S, a) :
    \E b \in 0..(k - a) : \E cl \in ClassifiersOver(E, S, b) :
    \E c \in 0..(k - a - b) : \E l \in ListsOver(E, DiagramIDs, c) :
    \E d \in 0..(k - a - b - c) : \E n \in ListsOver(E, ConnectorsOver(S), d) :
        repo = [objects |-> o,
                classifier |-> cl @@ [e \in ElementIDs |-> 0],
                linked |-> l @@ [e \in ElementIDs |-> <<>>],
                connectors |-> n @@ [e \in ElementIDs |-> <<>>]]

\* the repositories of the sessions: those of at most MaxRefs references among
\* A, B and the missing id
Init ==
    /\ RepositoryOver(ScenarioIDs, MaxRefs)
    /\ pc = "idle"
    /\ pkg = 1
    /\ graph = [nodes |-> <<>>, edges |-> <<>>]
    /\ visited_elements = {}
    /\ visited_diagrams = {}
    /\ edge_set = {}
    /\ processed_elements = <<>>
    /\ stack = <<>>
    /\ calls = 0
    /\ results = [p \in PackageIDs |-> <<>>]
    /\ model = ProjectModel(<<>>, FALSE)
    /\ all_packages = <<>>
    /\ collect = <<>>

\* ------------------------------------------------------------- operations

\* generate_graph_from_package with graph kept from the call before (a graph
\* that is not local to the call)
generate_graph_from_package_stale_graph(p) ==
    /\ pc # "running"
    /\ (calls < 2 \/ (calls = 2 /\ results[p] # <<>>))
    /\ pc' = "running"
    /\ pkg' = p
    /\ calls' = calls + 1
    /\ graph' = graph
    /\ visited_elements' = {}
    /\ edge_set' = {}
    /\ processed_elements' = <<>>
    /\ IF Len(PackageDiagrams(p)) > 0
       THEN LET mainDiagram == PackageDiagrams(p)[1] IN
            /\ visited_diagrams' = {mainDiagram}
            /\ stack' = <<[kind |-> "main", package |-> p, diagram |-> mainDiagram,
                           e |-> 1, elements |-> <<>>]>>
       ELSE /\ visited_diagrams' = {}
            /\ stack' = <<>>
    /\ UNCHANGED <<repo, results>>
    /\ UNCHANGED listing_vars

\* generate_graph_from_package with visited_elements kept from the call before
generate_graph_from_package_stale_visited(p) ==
    /\ pc # "running"
    /\ (calls < 2 \/ (calls = 2 /\ results[p] # <<>>))
    /\ pc' = "running"
    /\ pkg' = p
    /\ calls' = calls + 1
    /\ graph' = [nodes |-> <<>>, edges |-> <<>>]
    /\ visited_elements' = visited_elements
    /\ edge_set' = {}
    /\ processed_elements' = <<>>
    /\ IF Len(PackageDiagrams(p)) > 0
       THEN LET mainDiagram == PackageDiagrams(p)[1] IN
            /\ visited_diagrams' = {mainDiagram}
            /\ stack' = <<[kind |-> "main", package |-> p, diagram |-> mainDiagram,
                           e |-> 1, elements |-> <<>>]>>
       ELSE /\ visited_diagrams' = {}
            /\ stack' = <<>>
    /\ UNCHANGED <<repo, results>>
    /\ UNCHANGED listing_vars

\* generate_graph_from_package taking the last diagram of the package for the
\* main diagram (GetAt(Count - 1) for GetAt(0))
generate_graph_from_package_last_diagram(p) ==
    /\ pc # "running"
    /\ (calls < 2 \/ (calls = 2 /\ results[p] # <<>>))
    /\ pc' = "running"
    /\ pkg' = p
    /\ calls' = calls + 1
    /\ graph' = [nodes |-> <<>>, edges |-> <<>>]
    /\ visited_elements' = {}
    /\ edge_set' = {}
    /\ processed_elements' = <<>>
    /\ IF Len(PackageDiagrams(p)) > 0
       THEN LET mainDiagram == PackageDiagrams(p)[Len(PackageDiagrams(p))] IN
            /\ visited_diagrams' = {mainDiagram}
            /\ stack' = <<[kind |-> "main", package |-> p, diagram |-> mainDiagram,
                           e |-> 1, elements |-> <<>>]>>
       ELSE /\ visited_diagrams' = {}
            /\ stack' = <<>>
    /\ UNCHANGED <<repo, results>>
    /\ UNCHANGED listing_vars

\* lines 56-77: a call of generate_graph_from_package(p, repository): fresh
\* graph and tracking sets, then process_main_diagram up to its loop.  A
\* session makes two calls on any packages, and may then repeat a call that
\* returned a graph.
generate_graph_from_package(p) ==
    /\ pc # "running"
    /\ (calls < 2 \/ (calls = 2 /\ results[p] # <<>>))
    /\ pc' = "running"
    /\ pkg' = p
    /\ calls' = calls + 1
    /\ graph' = [nodes |-> <<>>, edges |-> <<>>]
    /\ visited_elements' = {}
    /\ edge_set' = {}
    /\ processed_elements' = <<>>
    /\ IF Len(PackageDiagrams(p)) > 0
       THEN LET mainDiagram == PackageDiagrams(p)[1] IN
            /\ visited_diagrams' = {mainDiagram}
            /\ stack' = <<[kind |-> "main", package |-> p, diagram |-> mainDiagram,
                           e |-> 1, elements |-> <<>>]>>
       ELSE /\ visited_diagrams' = {}
            /\ stack' = <<>>
    /\ UNCHANGED <<repo, results>>
    /\ UNCHANGED listing_vars

\* the callers without the test "not in visited_elements"
NotYetVisited_untested(id) == TRUE

\* lines 83 and 167: the callers hand only unvisited elements to process_element
NotYetVisited(id) == id \notin visited_elements

\* process_external_classifier resolving the classifier of the classifier too
process_external_classifier_nested(classifierID, nodes, visited, processed) ==
    IF GetElementByID(classifierID) # <<>> /\ classifierID \notin visited
    THEN LET own == repo.classifier[classifierID] IN
         IF own # 0 /\ GetElementByID(own) # <<>> /\ own \notin visited \cup {classifierID}
         THEN [nodes |-> Append(Append(nodes, ExternalNode(classifierID)), ExternalNode(own)),
               visited |-> visited \cup {classifierID, own},
               processed |-> (own :> ExternalNode(own))
                             @@ (classifierID :> ExternalNode(classifierID)) @@ processed]
         ELSE [nodes |-> Append(nodes, ExternalNode(classifierID)),
               visited |-> visited \cup {classifierID},
               processed |-> (classifierID :> ExternalNode(classifierID)) @@ processed]
    ELSE [nodes |-> nodes, visited |-> visited, processed |-> processed]

\* process_external_classifier without the test "not in visited_elements"
process_external_classifier_unchecked(classifierID, nodes, visited, processed) ==
    IF GetElementByID(classifierID) # <<>>
    THEN [nodes |-> Append(nodes, ExternalNode(classifierID)),
          visited |-> visited \cup {classifierID},
          processed |-> (classifierID :> ExternalNode(classifierID)) @@ processed]
    ELSE [nodes |-> nodes, visited |-> visited, processed |-> processed]

\* process_external_classifier with the append of line 153 under "if pkg:"
process_external_classifier_if_pkg(classifierID, nodes, visited, processed) ==
    IF GetElementByID(classifierID) # <<>> /\ classifierID \notin visited
    THEN [nodes |-> IF GetPackageByID(ElementPackageID(classifierID)) # <<>>
                    THEN Append(nodes, ExternalNode(classifierID)) ELSE nodes,
          visited |-> visited \cup {classifierID},
          processed |-> (classifierID :> ExternalNode(classifierID)) @@ processed]
    ELSE [nodes |-> nodes, visited |-> visited, processed |-> processed]

\* lines 132-155: process_external_classifier(classifierID), as the new values
\* of graph["nodes"], visited_elements and processed_elements
process_external_classifier(classifierID, nodes, visited, processed) ==
    IF GetElementByID(classifierID) # <<>> /\ classifierID \notin visited
    THEN [nodes |-> Append(nodes, ExternalNode(classifierID)),
          visited |-> visited \cup {classifierID},
          processed |-> (classifierID :> ExternalNode(classifierID)) @@ processed]
    ELSE [nodes |-> nodes, visited |-> visited, processed |-> processed]

\* process_element appending and recording the node as soon as it is built
\* (lines 128-129 moved before line 121)
process_element_appended_first(id, diag_object) ==
    IF id \in visited_elements
    THEN /\ stack' = ReplaceTop(stack,
                [Top EXCEPT !.e = @ + 1,
                            !.elements = IF id \in DOMAIN processed_elements
                                         THEN Append(@, id) ELSE @])
         /\ UNCHANGED <<graph, visited_elements, processed_elements>>
    ELSE LET built == Append(graph.nodes, ElementNode(id, diag_object))
             recorded == (id :> ElementNode(id, diag_object)) @@ processed_elements
             ext == IF repo.classifier[id] # 0
                    THEN process_external_classifier(repo.classifier[id], built,
                             visited_elements \cup {id}, recorded)
                    ELSE [nodes |-> built, visited |-> visited_elements \cup {id},
                          processed |-> recorded]
         IN /\ graph' = [graph EXCEPT !.nodes = ext.nodes]
            /\ visited_elements' = ext.visited
            /\ processed_elements' = ext.processed
            /\ stack' = Append(stack, [kind |-> "element", element |-> id,
                                       node |-> ElementNode(id, diag_object), d |-> 1, j |-> 1])

\* lines 94-122: process_element(element, diag_object) is entered from the
\* diagram frame on top of the stack.  Visited: it returns the recorded node or
\* None to the caller (lines 85-86, 169-170).  Otherwise: mark visited, build
\* the node with its attributes, process the external classifier.
process_element(id, diag_object) ==
    IF id \in visited_elements
    THEN /\ stack' = ReplaceTop(stack,
                [Top EXCEPT !.e = @ + 1,
                            !.elements = IF id \in DOMAIN processed_elements
                                         THEN Append(@, id) ELSE @])
         /\ UNCHANGED <<graph, visited_elements, processed_elements>>
    ELSE LET ext == IF repo.classifier[id] # 0
                    THEN process_external_classifier(repo.classifier[id], graph.nodes,
                             visited_elements \cup {id}, processed_elements)
                    ELSE [nodes |-> graph.nodes, visited |-> visited_elements \cup {id},
                          processed |-> processed_elements]
         IN /\ graph' = [graph EXCEPT !.nodes = ext.nodes]
            /\ visited_elements' = ext.visited
            /\ processed_elements' = ext.processed
            /\ stack' = Append(stack, [kind |-> "element", element |-> id,
                                       node |-> ElementNode(id, diag_object), d |-> 1, j |-> 1])

\* lines 78-86 (main diagram) and 164-170 (linked diagram): one iteration of
\* the loop over the diagram objects of the diagram on top of the stack
DiagramObjectStep(kind) ==
    /\ pc = "running"
    /\ stack # <<>>
    /\ Top.kind = kind
    /\ Top.e <= Len(repo.objects[Top.diagram])
    /\ LET diag_object == DiagramObject(Top.diagram, Top.e, repo.objects[Top.diagram][Top.e])
           diag_element == GetElementByID(diag_object.ElementID)
       IN IF diag_element # <<>> /\ NotYetVisited(diag_element[1])
          THEN process_element(diag_element[1], diag_object)
          ELSE /\ stack' = ReplaceTop(stack, [Top EXCEPT !.e = @ + 1])
               /\ UNCHANGED <<graph, visited_elements, processed_elements>>
    /\ UNCHANGED <<repo, pc, pkg, visited_diagrams, edge_set, calls, results>>
    /\ UNCHANGED listing_vars

process_main_diagram_object == DiagramObjectStep("main")
process_linked_diagram_object == DiagramObjectStep("linked")

\* process_main_diagram with the package node put at the head of the nodes
process_main_diagram_done_first ==
    /\ pc = "running"
    /\ stack # <<>>
    /\ Top.kind = "main"
    /\ Top.e > Len(repo.objects[Top.diagram])
    /\ graph' = [graph EXCEPT !.nodes =
            <<[name |-> PackageName(Top.package), type |-> "Package",
               diagrams |-> <<[id |-> DiagramNodeID(Top.diagram), name |-> DiagramName(Top.diagram),
                               type |-> "Diagram", elements |-> Top.elements]>>]>> \o @]
    /\ stack' = Pop(stack)
    /\ UNCHANGED <<repo, pc, pkg, visited_elements, visited_diagrams, edge_set,
                   processed_elements, calls, results>>
    /\ UNCHANGED listing_vars

\* lines 87-92: the main diagram is done, the package node is appended
process_main_diagram_done ==
    /\ pc = "running"
    /\ stack # <<>>
    /\ Top.kind = "main"
    /\ Top.e > Len(repo.objects[Top.diagram])
    /\ graph' = [graph EXCEPT !.nodes = Append(@,
            [name |-> PackageName(Top.package), type |-> "Package",
             diagrams |-> <<[id |-> DiagramNodeID(Top.diagram), name |-> DiagramName(Top.diagram),
                             type |-> "Diagram", elements |-> Top.elements]>>])]
    /\ stack' = Pop(stack)
    /\ UNCHANGED <<repo, pc, pkg, visited_elements, visited_diagrams, edge_set,
                   processed_elements, calls, results>>
    /\ UNCHANGED listing_vars

\* lines 158-163: one iteration of the loop over element.Diagrams
process_linked_diagrams ==
    /\ pc = "running"
    /\ stack # <<>>
    /\ Top.kind = "element"
    /\ Top.d <= Len(repo.linked[Top.element])
    /\ LET diagram == repo.linked[Top.element][Top.d] IN
       IF diagram \in visited_diagrams
       THEN /\ stack' = ReplaceTop(stack, [Top EXCEPT !.d = @ + 1])
            /\ UNCHANGED visited_diagrams
       ELSE /\ visited_diagrams' = visited_diagrams \cup {diagram}
            /\ stack' = Append(stack, [kind |-> "linked", package |-> pkg, diagram |-> diagram,
                                       e |-> 1, elements |-> <<>>])
    /\ UNCHANGED <<repo, pc, pkg, graph, visited_elements, edge_set, processed_elements,
                   calls, results>>
    /\ UNCHANGED listing_vars

\* process_linked_diagrams with a visited set per branch: the diagram is
\* taken out of visited_diagrams when its expansion is done
process_linked_diagram_done_per_branch ==
    /\ pc = "running"
    /\ stack # <<>>
    /\ Top.kind = "linked"
    /\ Top.e > Len(repo.objects[Top.diagram])
    /\ LET owner == stack[Len(stack) - 1]
           record == [id |-> DiagramNodeID(Top.diagram), name |-> DiagramName(Top.diagram),
                      type |-> "Diagram", elements |-> Top.elements]
       IN stack' = ReplaceTop(Pop(stack),
                      [owner EXCEPT !.node.linkedDiagrams = Append(@, record), !.d = @ + 1])
    /\ visited_diagrams' = visited_diagrams \ {Top.diagram}
    /\ UNCHANGED <<repo, pc, pkg, graph, visited_elements, edge_set,
                   processed_elements, calls, results>>
    /\ UNCHANGED listing_vars

\* lines 171-176: the linked diagram is done, its record is appended to the
\* linkedDiagrams of the node under construction below it
process_linked_diagram_done ==
    /\ pc = "running"
    /\ stack # <<>>
    /\ Top.kind = "linked"
    /\ Top.e > Len(repo.objects[Top.diagram])
    /\ LET owner == stack[Len(stack) - 1]
           record == [id |-> DiagramNodeID(Top.diagram), name |-> DiagramName(Top.diagram),
                      type |-> "Diagram", elements |-> Top.elements]
       IN stack' = ReplaceTop(Pop(stack),
                      [owner EXCEPT !.node.linkedDiagrams = Append(@, record), !.d = @ + 1])
    /\ UNCHANGED <<repo, pc, pkg, graph, visited_elements, visited_diagrams, edge_set,
                   processed_elements, calls, results>>
    /\ UNCHANGED listing_vars

\* add_edges_from_element with the ends of the edge exchanged ("from" is the
\* supplier, "to" the client)
add_edges_from_element_exchanged ==
    /\ pc = "running"
    /\ stack # <<>>
    /\ Top.kind = "element"
    /\ Top.d > Len(repo.linked[Top.element])
    /\ Top.j <= Len(repo.connectors[Top.element])
    /\ LET connector == repo.connectors[Top.element][Top.j]
           sourceElement == GetElementByID(connector.ClientID)
           targetElement == GetElementByID(connector.SupplierID)
       IN IF sourceElement = <<>> \/ targetElement = <<>>
          THEN /\ pc' = "raised"
               /\ stack' = <<>>
               /\ UNCHANGED <<graph, edge_set>>
          ELSE LET edgeID == EdgeID(sourceElement[1], targetElement[1], connector.Type) IN
               /\ pc' = pc
               /\ stack' = ReplaceTop(stack, [Top EXCEPT !.j = @ + 1])
               /\ IF edgeID \notin edge_set
                  THEN /\ graph' = [graph EXCEPT !.edges = Append(@,
                                [from |-> targetElement[1], to |-> sourceElement[1],
                                 type |-> connector.Type, name |-> connector.Name])]
                       /\ edge_set' = edge_set \cup {edgeID}
                  ELSE UNCHANGED <<graph, edge_set>>
    /\ UNCHANGED <<repo, pkg, visited_elements, visited_diagrams, processed_elements,
                   calls, results>>
    /\ UNCHANGED listing_vars

\* lines 179-192: one iteration of the loop over element.Connectors.  An end
\* that does not resolve is None, and None.ElementID raises AttributeError,
\* which nothing catches: the call ends without returning a graph.
add_edges_from_element ==
    /\ pc = "running"
    /\ stack # <<>>
    /\ Top.kind = "element"
    /\ Top.d > Len(repo.linked[Top.element])
    /\ Top.j <= Len(repo.connectors[Top.element])
    /\ LET connector == repo.connectors[Top.element][Top.j]
           sourceElement == GetElementByID(connector.ClientID)
           targetElement == GetElementByID(connector.SupplierID)
       IN IF sourceElement = <<>> \/ targetElement = <<>>
          THEN /\ pc' = "raised"
               /\ stack' = <<>>
               /\ UNCHANGED <<graph, edge_set>>
          ELSE LET edgeID == EdgeID(sourceElement[1], targetElement[1], connector.Type) IN
               /\ pc' = pc
               /\ stack' = ReplaceTop(stack, [Top EXCEPT !.j = @ + 1])
               /\ IF edgeID \notin edge_set
                  THEN /\ graph' = [graph EXCEPT !.edges = Append(@,
                                [from |-> sourceElement[1], to |-> targetElement[1],
                                 type |-> connector.Type, name |-> connector.Name])]
                       /\ edge_set' = edge_set \cup {edgeID}
                  ELSE UNCHANGED <<graph, edge_set>>
    /\ UNCHANGED <<repo, pkg, visited_elements, visited_diagrams, processed_elements,
                   calls, results>>
    /\ UNCHANGED listing_vars

\* process_element with an edge_set of its own: the set is empty again when
\* the element is done
process_element_done_own_edge_set ==
    /\ pc = "running"
    /\ stack # <<>>
    /\ Top.kind = "element"
    /\ Top.d > Len(repo.linked[Top.element])
    /\ Top.j > Len(repo.connectors[Top.element])
    /\ graph' = [graph EXCEPT !.nodes = Append(@, Top.node)]
    /\ processed_elements' = (Top.element :> Top.node) @@ processed_elements
    /\ edge_set' = {}
    /\ LET caller == stack[Len(stack) - 1] IN
       stack' = ReplaceTop(Pop(stack),
                    [caller EXCEPT !.e = @ + 1, !.elements = Append(@, Top.element)])
    /\ UNCHANGED <<repo, pc, pkg, visited_elements, visited_diagrams, calls, results>>
    /\ UNCHANGED listing_vars

\* process_element without line 129: the node is appended, not recorded
process_element_done_unrecorded ==
    /\ pc = "running"
    /\ stack # <<>>
    /\ Top.kind = "element"
    /\ Top.d > Len(repo.linked[Top.element])
    /\ Top.j > Len(repo.connectors[Top.element])
    /\ graph' = [graph EXCEPT !.nodes = Append(@, Top.node)]
    /\ processed_elements' = processed_elements
    /\ LET caller == stack[Len(stack) - 1] IN
       stack' = ReplaceTop(Pop(stack),
                    [caller EXCEPT !.e = @ + 1, !.elements = Append(@, Top.element)])
    /\ UNCHANGED <<repo, pc, pkg, visited_elements, visited_diagrams, edge_set, calls, results>>
    /\ UNCHANGED listing_vars

\* lines 127-130, then 85-86 or 169-170: the node is appended and recorded,
\* process_element returns it and the calling loop appends it to its list
process_element_done ==
    /\ pc = "running"
    /\ stack # <<>>
    /\ Top.kind = "element"
    /\ Top.d > Len(repo.linked[Top.element])
    /\ Top.j > Len(repo.connectors[Top.element])
    /\ graph' = [graph EXCEPT !.nodes = Append(@, Top.node)]
    /\ processed_elements' = (Top.element :> Top.node) @@ processed_elements
    /\ LET caller == stack[Len(stack) - 1] IN
       stack' = ReplaceTop(Pop(stack),
                    [caller EXCEPT !.e = @ + 1, !.elements = Append(@, Top.element)])
    /\ UNCHANGED <<repo, pc, pkg, visited_elements, visited_diagrams, edge_set, calls, results>>
    /\ UNCHANGED listing_vars

\* line 196: return graph
return_graph ==
    /\ pc = "running"
    /\ stack = <<>>
    /\ pc' = "returned"
    /\ results' = IF results[pkg] = <<>> THEN [results EXCEPT ![pkg] = <<graph>>] ELSE results
    /\ UNCHANGED <<repo, pkg, graph, visited_elements, visited_diagrams, edge_set,
                   processed_elements, stack, calls>>
    /\ UNCHANGED listing_vars

Next ==
    \/ \E p \in PackageIDs : generate_graph_from_package(p)
    \/ process_main_diagram_object
    \/ process_main_diagram_done
    \/ process_linked_diagrams
    \/ process_linked_diagram_object
    \/ process_linked_diagram_done
    \/ add_edges_from_element
    \/ process_element_done
    \/ return_graph

Spec == Init /\ [][Next]_vars

\* ------------------------------------------------ one call, more references
\* A single call of generate_graph_from_package on a larger family of
\* repositories: those of at most MaxRefs references among A, B, X and the
\* missing id, and those of one reference more among A, B and the missing id.
InitLarge ==
    /\ \/ RepositoryOver(ElementIDs, MaxRefs)
       \/ RepositoryOver(ScenarioIDs, MaxRefs + 1)
    /\ pc = "idle"
    /\ pkg = 1
    /\ graph = [nodes |-> <<>>, edges |-> <<>>]
    /\ visited_elements = {}
    /\ visited_diagrams = {}
    /\ edge_set = {}
    /\ processed_elements = <<>>
    /\ stack = <<>>
    /\ calls = 0
    /\ results = [p \in PackageIDs |-> <<>>]
    /\ model = ProjectModel(<<>>, FALSE)
    /\ all_packages = <<>>
    /\ collect = <<>>

NextLarge ==
    \/ \E p \in PackageIDs : calls = 0 /\ generate_graph_from_package(p)
    \/ process_main_diagram_object
    \/ process_main_diagram_done
    \/ process_linked_diagrams
    \/ process_linked_diagram_object
    \/ process_linked_diagram_done
    \/ add_edges_from_element
    \/ process_element_done
    \/ return_graph

SpecLarge == InitLarge /\ [][NextLarge]_vars

\* the steps of a call in progress: every action but the call itself
TraversalStep ==
    \/ process_main_diagram_object
    \/ process_main_diagram_done
    \/ process_linked_diagrams
    \/ process_linked_diagram_object
    \/ process_linked_diagram_done
    \/ add_edges_from_element
    \/ process_element_done
    \/ return_graph

\* A call that was made runs on: the interpreter executes the body of
\* generate_graph_from_package statement after statement (lines 56-196) until
\* it returns or raises.  Whether a further call is made is up to the user.
FairSpec == Init /\ [][Next]_vars /\ WF_vars(TraversalStep)

\* ------------------------------------------------------ get_all_packages
\* The recursion of recursive_collect_packages is the stack "collect": the
\* frame of get_all_packages at the bottom, one frame per active call of
\* recursive_collect_packages above it.  A package object is its id.

\* lines 30-31: packages = [ea_package], loop index at 0
CollectFrame(ea_package) ==
    [kind |-> "package", ea_package |-> ea_package, i |-> 1, packages |-> <<ea_package>>]
CollectTop == collect[Len(collect)]

InitPackages ==
    /\ model \in ProjectModels
    /\ all_packages = <<>>
    /\ collect = <<>>
    /\ repo = EmptyRepo
    /\ pc = "idle"
    /\ pkg = 1
    /\ graph = [nodes |-> <<>>, edges |-> <<>>]
    /\ visited_elements = {}
    /\ visited_diagrams = {}
    /\ edge_set = {}
    /\ processed_elements = <<>>
    /\ stack = <<>>
    /\ calls = 0
    /\ results = [p \in PackageIDs |-> <<>>]

\* lines 43-45 (called on line 213): packages = [], models = repository.Models
get_all_packages ==
    /\ collect = <<>>
    /\ all_packages = <<>>
    /\ collect' = <<[kind |-> "models", i |-> 1, packages |-> <<>>]>>
    /\ UNCHANGED <<model, all_packages>>
    /\ UNCHANGED export_vars

\* lines 46-48: one iteration of the loop over the models calls
\* recursive_collect_packages(model)
get_all_packages_model ==
    /\ collect # <<>>
    /\ CollectTop.kind = "models"
    /\ CollectTop.i <= Len(model.Models)
    /\ collect' = Append(collect, CollectFrame(model.Models[CollectTop.i]))
    /\ UNCHANGED <<model, all_packages>>
    /\ UNCHANGED export_vars

\* lines 32-35: one iteration of the loop over the sub packages calls
\* recursive_collect_packages(sub_pkg)
recursive_collect_packages_sub ==
    /\ collect # <<>>
    /\ CollectTop.kind = "package"
    /\ CollectTop.i <= Len(model.Packages[CollectTop.ea_package])
    /\ collect' = Append(collect,
                      CollectFrame(model.Packages[CollectTop.ea_package][CollectTop.i]))
    /\ UNCHANGED <<model, all_packages>>
    /\ UNCHANGED export_vars

\* recursive_collect_packages putting the returned list in front of the
\* caller's list
recursive_collect_packages_return_in_front ==
    /\ collect # <<>>
    /\ CollectTop.kind = "package"
    /\ CollectTop.i > Len(model.Packages[CollectTop.ea_package])
    /\ LET caller == collect[Len(collect) - 1] IN
       collect' = [Pop(collect) EXCEPT ![Len(collect) - 1] =
                      [caller EXCEPT !.i = @ + 1, !.packages = CollectTop.packages \o @]]
    /\ UNCHANGED <<model, all_packages>>
    /\ UNCHANGED export_vars

\* line 36, then line 35 or 48: recursive_collect_packages returns its list
\* and the caller extends its own list with it
recursive_collect_packages_return ==
    /\ collect # <<>>
    /\ CollectTop.kind = "package"
    /\ CollectTop.i > Len(model.Packages[CollectTop.ea_package])
    /\ LET caller == collect[Len(collect) - 1] IN
       collect' = [Pop(collect) EXCEPT ![Len(collect) - 1] =
                      [caller EXCEPT !.i = @ + 1, !.packages = @ \o CollectTop.packages]]
    /\ UNCHANGED <<model, all_packages>>
    /\ UNCHANGED export_vars

\* line 49: return packages (bound to all_packages on line 213)
get_all_packages_return ==
    /\ collect # <<>>
    /\ CollectTop.kind = "models"
    /\ CollectTop.i > Len(model.Models)
    /\ all_packages' = <<CollectTop.packages>>
    /\ collect' = <<>>
    /\ UNCHANGED model
    /\ UNCHANGED export_vars

NextPackages ==
    \/ get_all_packages
    \/ get_all_packages_model
    \/ recursive_collect_packages_sub
    \/ recursive_collect_packages_return
    \/ get_all_packages_return

SpecPackages == InitPackages /\ [][NextPackages]_vars

\* ------------------------------------------------------ reading the output
IsPackageNode(n) == "diagrams" \in DOMAIN n
IsElementNode(n) == "linkedDiagrams" \in DOMAIN n
IsExternalNode(n) == "package" \in DOMAIN n
HasID(n) == "id" \in DOMAIN n

Returned == pc = "returned"

NodeIndexes == DOMAIN graph.nodes
\* ids of the ElementNodes / ExternalNodes of graph["nodes"]
ElementNodeIDs == {graph.nodes[i].id : i \in {k \in NodeIndexes : IsElementNode(graph.nodes[k])}}
ExternalNodeIDs == {graph.nodes[i].id : i \in {k \in NodeIndexes : IsExternalNode(graph.nodes[k])}}
NodeIDs == ElementNodeIDs \cup ExternalNodeIDs
\* elements whose process_element body is running
UnderConstruction == {stack[k].element : k \in {i \in DOMAIN stack : stack[i].kind = "element"}}
\* elements whose process_element body ran or is running
Processed == ElementNodeIDs \cup UnderConstruction

\* the diagrams expanded in this call, from the output and the stack
MainDiagramOf(p) == IF Len(PackageDiagrams(p)) > 0 THEN {PackageDiagrams(p)[1]} ELSE {}
ElementsOn(d) == {repo.objects[d][i] : i \in DOMAIN repo.objects[d]}
\* the diagram objects (element ids) of the main diagram of the call's package
MainObjects ==
    IF Len(PackageDiagrams(pkg)) > 0 THEN repo.objects[PackageDiagrams(pkg)[1]] ELSE <<>>
OnMainDiagram(x) == \E i \in DOMAIN MainObjects : MainObjects[i] = x

\* ------------------------------------------------------------------ claims

\* C1: in a returned graph no two nodes that carry an id have the same id.
C1_NoDuplicateNodes ==
    Returned =>
        \A i, k \in NodeIndexes :
            (i # k /\ HasID(graph.nodes[i]) /\ HasID(graph.nodes[k]))
                => graph.nodes[i].id # graph.nodes[k].id

\* an element that was met as an external classifier and is placed on the
\* main diagram after the element that refers to it
C1_Witness ==
    /\ Returned
    /\ Len(graph.nodes) = 3
    /\ \E x \in ExternalNodeIDs : OnMainDiagram(x)

Triple(x) == <<x.from, x.to, x.type>>
ConnectorTriple(c) == <<c.ClientID, c.SupplierID, c.Type>>

\* C2: a returned graph holds at most one edge per (from, to, type), and the
\* triple of every connector of a processed element is the triple of an edge:
\* connectors with different triples are not collapsed.
C2_OneEdgePerTriple ==
    Returned =>
        /\ \A i, k \in DOMAIN graph.edges :
              i # k => Triple(graph.edges[i]) # Triple(graph.edges[k])
        /\ \A e \in ElementNodeIDs : \A j \in DOMAIN repo.connectors[e] :
              \E i \in DOMAIN graph.edges :
                  Triple(graph.edges[i]) = ConnectorTriple(repo.connectors[e][j])

\* two connectors of one triple and different names, owned by two different
\* processed elements, gave one edge
C2_Witness ==
    /\ Returned
    /\ Len(graph.edges) = 1
    /\ \E e, f \in ElementNodeIDs :
       \E j \in DOMAIN repo.connectors[e] : \E k \in DOMAIN repo.connectors[f] :
          /\ e # f
          /\ ConnectorTriple(repo.connectors[e][j]) = ConnectorTriple(repo.connectors[f][k])
          /\ repo.connectors[e][j].Name # repo.connectors[f][k].Name

\* two connectors of one triple and different names, owned by one processed
\* element, gave one edge
SameOwnerOneEdge ==
    /\ Returned
    /\ Len(graph.edges) = 1
    /\ \E e \in ElementNodeIDs : \E j, k \in DOMAIN repo.connectors[e] :
          /\ ConnectorTriple(repo.connectors[e][j]) = ConnectorTriple(repo.connectors[e][k])
          /\ repo.connectors[e][j].Name # repo.connectors[e][k].Name

\* connectors of two different triples, owned by two different processed
\* elements, gave two edges
TwoOwnersTwoEdges ==
    /\ Returned
    /\ Len(graph.edges) = 2
    /\ \E e, f \in ElementNodeIDs : e # f /\ Len(repo.connectors[e]) = 1 /\ Len(repo.connectors[f]) = 1

\* every DiagramNode of the output and of the nodes under construction, by
\* where it is listed: <<"package", node index, position>>,
\* <<"node", node index, position>>, <<"stack", frame index, position>>
DiagramNodePlaces ==
    {<<"package", i, k>> : i \in {m \in NodeIndexes : IsPackageNode(graph.nodes[m])}, k \in 1..1}
    \cup UNION {{<<"node", i, k>> : k \in DOMAIN graph.nodes[i].linkedDiagrams} :
                    i \in {m \in NodeIndexes : IsElementNode(graph.nodes[m])}}
    \cup UNION {{<<"stack", i, k>> : k \in DOMAIN stack[i].node.linkedDiagrams} :
                    i \in {m \in DOMAIN stack : stack[m].kind = "element"}}
DiagramNodeAt(pl) ==
    IF pl[1] = "package" THEN graph.nodes[pl[2]].diagrams[pl[3]]
    ELSE IF pl[1] = "node" THEN graph.nodes[pl[2]].linkedDiagrams[pl[3]]
    ELSE stack[pl[2]].node.linkedDiagrams[pl[3]]

\* C3: each diagram is expanded at most once in a call: no two DiagramNodes
\* of the output carry the same id, and no diagram is being expanded twice or
\* again after its DiagramNode was listed.
C3_DiagramSingleVisit ==
    /\ \A a, b \in DiagramNodePlaces :
          a # b => DiagramNodeAt(a).id # DiagramNodeAt(b).id
    /\ \A i, k \in DOMAIN stack :
          (i # k /\ IsDiagramFrame(stack[i]) /\ IsDiagramFrame(stack[k]))
              => stack[i].diagram # stack[k].diagram
    /\ \A i \in DOMAIN stack : \A a \in DiagramNodePlaces :
          IsDiagramFrame(stack[i]) => DiagramNodeAt(a).id # DiagramNodeID(stack[i].diagram)

\* a returned graph in which two different processed elements link one
\* diagram, which is not the main diagram: the first one lists its
\* DiagramNode, the second one lists nothing
C3_Witness ==
    /\ Returned
    /\ Cardinality(DiagramNodePlaces) = 2
    /\ \E i, k \in NodeIndexes :
          /\ i < k
          /\ IsElementNode(graph.nodes[i])
          /\ IsElementNode(graph.nodes[k])
          /\ repo.linked[graph.nodes[i].id] = repo.linked[graph.nodes[k].id]
          /\ Len(repo.linked[graph.nodes[i].id]) = 1
          /\ repo.linked[graph.nodes[i].id][1] \notin MainDiagramOf(pkg)
          /\ Len(graph.nodes[i].linkedDiagrams) = 1
          /\ Len(graph.nodes[k].linkedDiagrams) = 0

\* a returned graph with two DiagramNodes, the main diagram and a linked one,
\* and an element whose list of linked diagrams has an entry (a diagram
\* visited before) that is not in its linkedDiagrams
LinkedTwiceByOneElement ==
    /\ Returned
    /\ Cardinality(DiagramNodePlaces) = 2
    /\ \E i \in NodeIndexes :
          /\ IsElementNode(graph.nodes[i])
          /\ Len(graph.nodes[i].linkedDiagrams) = 1
          /\ Len(repo.linked[graph.nodes[i].id]) = 2

\* C4 (as claimed): no call ever ends by raising, whatever fails to resolve.
C4_LookupFailureSwallowed == pc # "raised"

HasDanglingConnector(e) ==
    \E j \in DOMAIN repo.connectors[e] :
        \/ GetElementByID(repo.connectors[e][j].ClientID) = <<>>
        \/ GetElementByID(repo.connectors[e][j].SupplierID) = <<>>

\* the elements lists being filled and those of the finished DiagramNodes
ElementLists ==
    {stack[i].elements : i \in {m \in DOMAIN stack : IsDiagramFrame(stack[m])}}
    \cup {DiagramNodeAt(pl).elements : pl \in DiagramNodePlaces}

\* a diagram object whose element is absent is skipped: it is in no elements
\* list, the loop goes on to the placements after it (every element that
\* resolves and lies before the loop index has been visited), and in a
\* returned graph every resolving placement of every expanded diagram has a
\* node
MissingPlacementSkipped ==
    /\ \A l \in ElementLists : \A i \in DOMAIN l : l[i] # MissingID
    /\ \A i \in DOMAIN stack :
          IsDiagramFrame(stack[i]) =>
              \A k \in 1..(stack[i].e - 1) :
                  GetElementByID(repo.objects[stack[i].diagram][k]) # <<>>
                      => repo.objects[stack[i].diagram][k] \in visited_elements
    /\ Returned =>
          \A d \in visited_diagrams : \A x \in ElementsOn(d) :
              GetElementByID(x) # <<>> => x \in NodeIDs

\* C5 (as claimed): when a diagram that the call expands (the main diagram or
\* a linked one) places an absent element, the call completes without error,
\* the placement is in no elements list and every other placement of the
\* diagram is processed.
C5_MissingPlacementTolerated ==
    /\ MissingPlacementSkipped
    /\ (\E d \in visited_diagrams : MissingID \in ElementsOn(d)) => pc # "raised"

\* a returned graph whose main diagram places an absent element before an
\* element that was then processed and listed
MissingOnMainDiagram ==
    /\ Returned
    /\ Len(MainObjects) = 2
    /\ MainObjects[1] = MissingID
    /\ MainObjects[2] \in ElementNodeIDs
    /\ \E i \in NodeIndexes :
          /\ IsPackageNode(graph.nodes[i])
          /\ graph.nodes[i].diagrams[1].elements = <<MainObjects[2]>>

\* a returned graph in which a linked diagram places an absent element before
\* an element that was then processed and listed
MissingOnLinkedDiagram ==
    /\ Returned
    /\ \E i \in NodeIndexes : \E d \in DiagramIDs :
          /\ IsElementNode(graph.nodes[i])
          /\ Len(graph.nodes[i].linkedDiagrams) = 1
          /\ graph.nodes[i].linkedDiagrams[1].id = DiagramNodeID(d)
          /\ d \notin MainDiagramOf(pkg)
          /\ Len(repo.objects[d]) = 2
          /\ repo.objects[d][1] = MissingID
          /\ repo.objects[d][2] \in ElementNodeIDs
          /\ graph.nodes[i].linkedDiagrams[1].elements = <<repo.objects[d][2]>>

\* the repository of the scenario: P's diagram D places A then B, B owns the
\* connector A -> B
ScenarioRepo ==
    [objects |-> [d \in DiagramIDs |-> IF d = 1 THEN <<1, 2>> ELSE <<>>],
     classifier |-> [e \in ElementIDs |-> 0],
     linked |-> [e \in ElementIDs |-> <<>>],
     connectors |-> [e \in ElementIDs |-> IF e = 2 THEN <<BaseConnector>> ELSE <<>>]]
ScenarioA ==
    [id |-> 1, name |-> "A", type |-> "Class", attributes |-> <<>>, linkedDiagrams |-> <<>>,
     position |-> [left |-> 10, right |-> 15, top |-> -1, bottom |-> -6]]
ScenarioB ==
    [id |-> 2, name |-> "B", type |-> "Interface",
     attributes |-> <<[id |-> 20, name |-> "a", type |-> "int", default |-> "0"]>>,
     linkedDiagrams |-> <<>>,
     position |-> [left |-> 20, right |-> 25, top |-> -1, bottom |-> -6]]
ScenarioP ==
    [name |-> "P", type |-> "Package",
     diagrams |-> <<[id |-> <<"D", "1">>, name |-> "D", type |-> "Diagram",
                     elements |-> <<1, 2>>]>>]
ScenarioEdges == <<[from |-> 1, to |-> 2, type |-> "Association", name |-> "uses"]>>
ScenarioReturned == Returned /\ pkg = 1 /\ repo = ScenarioRepo

\* C6 (as claimed): the scenario returns nodes [PackageNode, A, B] and the
\* one edge.
C6_PackageNodeFirst ==
    ScenarioReturned =>
        graph = [nodes |-> <<ScenarioP, ScenarioA, ScenarioB>>, edges |-> ScenarioEdges]

\* C6 (amended): the scenario returns nodes [A, B, PackageNode] - the element
\* nodes in the order they were finished, then the PackageNode - and the one
\* edge.
C6_PackageNodeLast ==
    ScenarioReturned =>
        graph = [nodes |-> <<ScenarioA, ScenarioB, ScenarioP>>, edges |-> ScenarioEdges]

C6_Witness == ScenarioReturned /\ Len(graph.nodes) = 3 /\ Len(graph.edges) = 1

\* C7: an element emitted as an ExternalNode is a leaf at every point of the
\* call: its record is the reduced one, process_element never runs for it, and
\* every edge, every visited diagram and every ExternalNode comes from a
\* connector, a diagram link or the classifier of an element that was
\* processed (or from the package, for the main diagram), so none comes from
\* the external element.
C7_ExternalIsLeaf ==
    /\ \A i \in NodeIndexes :
          IsExternalNode(graph.nodes[i]) =>
              /\ graph.nodes[i] = ExternalNode(graph.nodes[i].id)
              /\ graph.nodes[i].id \notin Processed
    /\ pc # "raised" =>
          /\ \A i \in DOMAIN graph.edges :
                \E e \in Processed : \E j \in DOMAIN repo.connectors[e] :
                    /\ ConnectorTriple(repo.connectors[e][j]) = Triple(graph.edges[i])
                    /\ repo.connectors[e][j].Name = graph.edges[i].name
          /\ \A d \in visited_diagrams :
                \/ d \in MainDiagramOf(pkg)
                \/ \E e \in Processed : \E k \in DOMAIN repo.linked[e] : repo.linked[e][k] = d
          /\ \A x \in ExternalNodeIDs : \E e \in Processed : repo.classifier[e] = x

\* a returned graph with an ExternalNode X whose own classifier is a third
\* element that resolves: that element was not visited and has no node
C7_Witness ==
    /\ Returned
    /\ \E x \in ExternalNodeIDs :
          /\ repo.classifier[x] \in ElementIDs \ {x}
          /\ repo.classifier[x] \notin visited_elements
          /\ repo.classifier[x] \notin NodeIDs
          /\ \E e \in ElementNodeIDs : e # repo.classifier[x] /\ repo.classifier[e] = x

\* a returned graph with an ExternalNode whose element is placed on the main
\* diagram after the element that referred to it and owns a connector with
\* resolving ends: the graph has no edge
ExternalPlacedLaterOwnsConnector ==
    /\ Returned
    /\ graph.edges = <<>>
    /\ Len(MainObjects) = 2
    /\ MainObjects[1] \in ElementNodeIDs
    /\ MainObjects[2] \in ExternalNodeIDs
    /\ Len(repo.connectors[MainObjects[2]]) > 0
    /\ ~HasDanglingConnector(MainObjects[2])

\* a returned graph with an ExternalNode whose element is placed on the main
\* diagram after the element that referred to it and links a diagram: the
\* diagram was not visited
ExternalPlacedLaterLinksDiagram ==
    /\ Returned
    /\ Len(MainObjects) = 2
    /\ MainObjects[1] \in ElementNodeIDs
    /\ MainObjects[2] \in ExternalNodeIDs
    /\ \E k \in DOMAIN repo.linked[MainObjects[2]] :
          repo.linked[MainObjects[2]][k] \notin visited_diagrams

\* C8: a call on a package without diagrams returns the empty graph and has
\* visited nothing.
C8_EmptyPackage ==
    (Returned /\ PackageDiagrams(pkg) = <<>>) =>
        /\ graph = [nodes |-> <<>>, edges |-> <<>>]
        /\ visited_elements = {}
        /\ visited_diagrams = {}
        /\ DOMAIN processed_elements = {}

\* the call on the package without diagrams returned, after a call on another
\* package that returned nodes
C8_Witness ==
    /\ Returned
    /\ PackageDiagrams(pkg) = <<>>
    /\ calls >= 2
    /\ \E p \in PackageIDs : results[p] # <<>> /\ Len(results[p][1].nodes) > 1

\* C9: a call returns the graph that the first call on that package returned.
C9_Deterministic == Returned => results[pkg] = <<graph>>

\* the third call of a session returned: it repeats the first call, after a
\* call on another package that visited elements too
C9_Witness ==
    /\ Returned
    /\ calls = 3
    /\ Len(graph.nodes) >= 2
    /\ Len(graph.edges) >= 1
    /\ \E q \in PackageIDs : q # pkg /\ results[q] # <<>> /\ Len(results[q][1].nodes) >= 2

\* C10: in a returned graph, the classifier of every processed element, when
\* it is non-zero and resolves, has a node.
C10_ClassifierNodePresent ==
    Returned =>
        \A e \in ElementNodeIDs :
            (repo.classifier[e] # 0 /\ GetElementByID(repo.classifier[e]) # <<>>)
                => repo.classifier[e] \in NodeIDs

\* an element whose classifier was under construction when the reference was
\* met: the element is listed by a linked diagram of its classifier, whose
\* node comes after it
C10_Witness ==
    /\ Returned
    /\ \E i, k \in NodeIndexes :
          /\ i < k
          /\ IsElementNode(graph.nodes[i])
          /\ IsElementNode(graph.nodes[k])
          /\ repo.classifier[graph.nodes[i].id] = graph.nodes[k].id
          /\ Len(graph.nodes[k].linkedDiagrams) = 1
          /\ graph.nodes[k].linkedDiagrams[1].elements = <<graph.nodes[i].id>>

\* an element whose classifier had been processed before it, as another
\* element of the diagram
ClassifierVisitedEarlier ==
    /\ Returned
    /\ \E i, k \in NodeIndexes :
          /\ i < k
          /\ IsElementNode(graph.nodes[i])
          /\ IsElementNode(graph.nodes[k])
          /\ repo.classifier[graph.nodes[k].id] = graph.nodes[i].id

\* an element that is its own classifier
ClassifierIsElementItself ==
    /\ Returned
    /\ \E e \in ElementNodeIDs : repo.classifier[e] = e

\* the indexes of the PackageNodes of graph["nodes"]
PackageNodeIndexes == {i \in NodeIndexes : IsPackageNode(graph.nodes[i])}

\* exactly one PackageNode, which lists exactly one DiagramNode: the diagram
\* at index 0 of the diagram list of the call's package
OnePackageNodeOfMainDiagram ==
    /\ Cardinality(PackageNodeIndexes) = 1
    /\ \A i \in PackageNodeIndexes :
          /\ graph.nodes[i].name = PackageName(pkg)
          /\ Len(graph.nodes[i].diagrams) = 1
          /\ Len(PackageDiagrams(pkg)) > 0
          /\ LET mainDiagram == PackageDiagrams(pkg)[1] IN
             /\ graph.nodes[i].diagrams[1].id = DiagramNodeID(mainDiagram)
             /\ graph.nodes[i].diagrams[1].name = DiagramName(mainDiagram)
             /\ graph.nodes[i].diagrams[1].type = "Diagram"

\* C11 (as claimed): every returned graph holds exactly one PackageNode, whose
\* diagrams list holds exactly one DiagramNode, the diagram at index 0 of the
\* package's diagram list.
C11_AlwaysOnePackageNode == Returned => OnePackageNodeOfMainDiagram

\* C11 (amended): a graph returned for a package that has a diagram holds
\* exactly one PackageNode, whose diagrams list holds exactly one DiagramNode,
\* the diagram at index 0 of the package's diagram list; a graph returned for
\* a package without diagrams holds no PackageNode.
C11_OnePackageNodeIfDiagram ==
    Returned =>
        IF Len(PackageDiagrams(pkg)) > 0
        THEN OnePackageNodeOfMainDiagram
        ELSE PackageNodeIndexes = {}

\* a graph returned for the package with two diagrams: the second diagram
\* places an element and was not expanded
C11_Witness ==
    /\ Returned
    /\ Len(PackageDiagrams(pkg)) = 2
    /\ PackageDiagrams(pkg)[2] # PackageDiagrams(pkg)[1]
    /\ PackageDiagrams(pkg)[2] \notin visited_diagrams
    /\ \E x \in ElementsOn(PackageDiagrams(pkg)[2]) : GetElementByID(x) # <<>> /\ x \notin NodeIDs
    /\ Cardinality(PackageNodeIndexes) = 1
    /\ Len(graph.nodes) >= 2

\* the packages of the project, and those at or below package q
ProjectPackages == DOMAIN model.ParentID
RECURSIVE PackagesBelow(_)
PackagesBelow(q) ==
    {q} \cup UNION {PackagesBelow(model.Packages[q][i]) : i \in DOMAIN model.Packages[q]}
\* the collections of the project: the models and each package's sub packages
ProjectCollections == {model.Models} \cup {model.Packages[q] : q \in ProjectPackages}
\* the index of package q in the returned list
ListedAt(q) == {i \in DOMAIN all_packages[1] : all_packages[1][i] = q}

\* the returned list holds every package exactly once, each package before
\* all packages below it, and the subtree of a member of a collection before
\* the subtrees of the members after it
ListedInPreOrder ==
    all_packages # <<>> =>
        /\ Len(all_packages[1]) = Cardinality(ProjectPackages)
        /\ \A q \in ProjectPackages : Cardinality(ListedAt(q)) = 1
        /\ \A q \in ProjectPackages : \A x \in PackagesBelow(q) \ {q} :
              \A i \in ListedAt(q) : \A k \in ListedAt(x) : i < k
        /\ \A S \in ProjectCollections : \A a, b \in DOMAIN S :
              a < b => \A x \in PackagesBelow(S[a]) : \A y \in PackagesBelow(S[b]) :
                          \A i \in ListedAt(x) : \A k \in ListedAt(y) : i < k

\* C12: for a forest of packages, get_all_packages returns every package
\* (models included) exactly once in depth-first pre-order, sub packages in
\* index order, and no step of the call changes the model.
C12_PreOrderListing == []ListedInPreOrder /\ [][model' = model]_vars

\* the list was returned for a project of nesting depth three in which a
\* collection of two packages is indexed against the order of the ids
C12_Witness ==
    /\ all_packages # <<>>
    /\ Len(all_packages[1]) = MaxPackages
    /\ \E S \in ProjectCollections : Len(S) = 2 /\ S[1] > S[2]
    /\ \E q \in ProjectPackages :
          model.ParentID[q] # 0 /\ model.ParentID[model.ParentID[q]] # 0

\* C13 (as claimed): every call of generate_graph_from_package eventually
\* returns.
C13_EventuallyReturns == (pc = "running") ~> (pc = "returned")

\* every call eventually ends, by returning or by raising
CallEnds == (pc = "running") ~> (pc \in {"returned", "raised"})

\* the elements under construction below frame i of the stack
UnderConstructionBelow(i) ==
    {stack[k].element : k \in {m \in 1..(i - 1) : stack[m].kind = "element"}}
\* the placements of diagram d before index e whose element resolves and has
\* a node or gets one from process_element (is not under construction below
\* frame i), in placement order
RECURSIVE PlacementsWithNode(_, _, _)
PlacementsWithNode(d, e, i) ==
    IF e <= 1 THEN <<>>
    ELSE LET x == repo.objects[d][e - 1] IN
         IF GetElementByID(x) # <<>> /\ x \notin UnderConstructionBelow(i)
         THEN Append(PlacementsWithNode(d, e - 1, i), x)
         ELSE PlacementsWithNode(d, e - 1, i)

\* C14 (as claimed): the elements list of a diagram being expanded (main or
\* linked) holds one entry for every placement handled so far whose element
\* resolves, in placement order, an element visited before included.
C14_EveryPlacementListed ==
    \A i \in DOMAIN stack :
        IsDiagramFrame(stack[i]) =>
            stack[i].elements = PlacementsWithNode(stack[i].diagram, stack[i].e, i)

\* the triples of the edges of the graph
EdgeTriples == {Triple(graph.edges[i]) : i \in DOMAIN graph.edges}
\* both ends of connector c resolve
Resolves(c) == GetElementByID(c.ClientID) # <<>> /\ GetElementByID(c.SupplierID) # <<>>
\* the connectors owned by the elements of S
ConnectorsOf(S) == UNION {{repo.connectors[e][j] : j \in DOMAIN repo.connectors[e]} : e \in S}

\* C16: in a returned graph every edge has the triple and the name of a
\* connector owned by an element that process_element processed, every
\* connector of such an element whose ends resolve has its triple among the
\* edges, and a connector that only elements not visited in the call own
\* contributes no edge.
C16_EdgesFromProcessedElements ==
    Returned =>
        /\ \A i \in DOMAIN graph.edges :
              \E c \in ConnectorsOf(ElementNodeIDs) :
                  ConnectorTriple(c) = Triple(graph.edges[i]) /\ c.Name = graph.edges[i].name
        /\ \A c \in ConnectorsOf(ElementNodeIDs) :
              Resolves(c) => ConnectorTriple(c) \in EdgeTriples
        /\ \A c \in ConnectorsOf(ElementIDs \ visited_elements) :
              (\A b \in ConnectorsOf(visited_elements) : ConnectorTriple(b) # ConnectorTriple(c))
                  => ConnectorTriple(c) \notin EdgeTriples

\* a returned graph with an edge, for a repository in which an element that
\* the call did not visit owns a connector whose ends resolve and whose triple
\* is not the triple of an edge
C16_Witness ==
    /\ Returned
    /\ Len(graph.edges) = 1
    /\ \E c \in ConnectorsOf(ElementIDs \ visited_elements) :
          Resolves(c) /\ ConnectorTriple(c) \notin EdgeTriples

\* the elements listed by the linked diagrams of node n
ListedBelow(n) ==
    UNION {{n.linkedDiagrams[k].elements[m] : m \in DOMAIN n.linkedDiagrams[k].elements} :
               k \in DOMAIN n.linkedDiagrams}

\* C17: an element's node is appended and recorded as the last step of its
\* processing.  At every point: an element under construction has no node and
\* no entry in the node map; and for an element E that has its node, the node
\* is recorded, all linked diagrams of E are visited, every connector of E
\* resolved and has its triple among the edges, and in nodes the elements
\* listed by E's linked diagrams and the ExternalNode of E's classifier come
\* before E.
C17_NodeAppendedLast ==
    /\ \A e \in UnderConstruction : e \notin ElementNodeIDs /\ e \notin DOMAIN processed_elements
    /\ \A k \in NodeIndexes :
          IsElementNode(graph.nodes[k]) =>
              LET E == graph.nodes[k].id IN
              /\ E \in DOMAIN processed_elements
              /\ processed_elements[E] = graph.nodes[k]
              /\ \A d \in DOMAIN repo.linked[E] : repo.linked[E][d] \in visited_diagrams
              /\ \A c \in ConnectorsOf({E}) : Resolves(c) /\ ConnectorTriple(c) \in EdgeTriples
              /\ \A x \in ListedBelow(graph.nodes[k]) :
                    \E i \in 1..(k - 1) : IsElementNode(graph.nodes[i]) /\ graph.nodes[i].id = x
              /\ \A i \in NodeIndexes :
                    (IsExternalNode(graph.nodes[i]) /\ graph.nodes[i].id = repo.classifier[E])
                        => i < k

\* a returned graph in which the element of the main diagram comes after the
\* element that its linked diagram lists
C17_Witness ==
    /\ Returned
    /\ Len(graph.nodes) = 3
    /\ \E i, k \in NodeIndexes :
          /\ i < k
          /\ IsElementNode(graph.nodes[i])
          /\ IsElementNode(graph.nodes[k])
          /\ MainObjects = <<graph.nodes[k].id>>
          /\ Len(graph.nodes[k].linkedDiagrams) = 1
          /\ graph.nodes[k].linkedDiagrams[1].elements = <<graph.nodes[i].id>>

\* C18: while a call runs, the elements in visited_elements that are not
\* keys of processed_elements are exactly the elements under construction on
\* the stack; when the call has returned, visited_elements, the keys of
\* processed_elements and the ids of the nodes are one set.
C18_VisitedBookkeeping ==
    /\ pc = "running" =>
          visited_elements \ DOMAIN processed_elements = UnderConstruction
    /\ pc = "running" => DOMAIN processed_elements \subseteq visited_elements
    /\ Returned =>
          /\ visited_elements = DOMAIN processed_elements
          /\ visited_elements = NodeIDs

\* a call in progress with two elements under construction, one below the
\* other, neither of them recorded
C18_Witness ==
    /\ pc = "running"
    /\ Cardinality(UnderConstruction) = 2
    /\ visited_elements \ DOMAIN processed_elements = UnderConstruction

\* a returned graph in which an element node and an ExternalNode account for
\* the visited elements
C18_ReturnedWitness ==
    /\ Returned
    /\ Cardinality(ElementNodeIDs) = 1
    /\ Cardinality(ExternalNodeIDs) = 1
    /\ visited_elements = NodeIDs

\* where element x is listed: the DiagramNode and the position in its list
ListedAtPlaces(x) ==
    {<<pl, m>> \in DiagramNodePlaces \X (1..MaxLen) :
        m \in DOMAIN DiagramNodeAt(pl).elements /\ DiagramNodeAt(pl).elements[m] = x}

\* the elements found by descending n levels of linkedDiagrams from the
\* elements of S (the node of an element is the one recorded for it)
RECURSIVE ListedWithin(_, _)
ListedWithin(S, n) ==
    IF n = 0 THEN {}
    ELSE LET below == UNION {ListedBelow(processed_elements[x]) :
                                 x \in {y \in S : y \in ElementNodeIDs}}
         IN below \cup ListedWithin(below, n - 1)

\* C19: in a returned graph the nested records form a tree: every ElementNode
\* is listed by at most one DiagramNode, at one position; no ExternalNode is
\* listed by a DiagramNode; no ElementNode is listed inside its own
\* linkedDiagrams, at any depth.
C19_NestedRecordsFormTree ==
    Returned =>
        /\ \A x \in ElementNodeIDs : Cardinality(ListedAtPlaces(x)) <= 1
        /\ \A x \in ExternalNodeIDs : ListedAtPlaces(x) = {}
        /\ \A x \in ElementNodeIDs : x \notin ListedWithin({x}, Cardinality(ElementIDs))

\* a returned graph for a cyclic model: the linked diagram of an element
\* places that element, and lists nothing
C19_Witness ==
    /\ Returned
    /\ \E k \in NodeIndexes :
          /\ IsElementNode(graph.nodes[k])
          /\ Cardinality(ListedAtPlaces(graph.nodes[k].id)) = 1
          /\ Len(graph.nodes[k].linkedDiagrams) = 1
          /\ \E d \in DiagramIDs :
                /\ graph.nodes[k].linkedDiagrams[1].id = DiagramNodeID(d)
                /\ graph.nodes[k].id \in ElementsOn(d)
                /\ d \notin MainDiagramOf(pkg)

====
